---- MODULE Spec2Model ----
(***************************************************************************)
(* Reference-governor MPC with input-rate penalty and constraints, run in  *)
(* closed loop (test_scripts/cvx_mpc_reference_governor_du.py).            *)
(*                                                                         *)
(* Float values are fixed-point integers in units of 1 / Scale; a matrix   *)
(* product is rounded to that resolution.  The plant is the script's      *)
(* second-order model (poles of modulus 0.9 and phase 0.2, unit DC gain).  *)
(* Configuration magnitudes (bounds, horizon, run length) are the bounds   *)
(* of the model, in units of 1 / Scale; an input may be any value of that  *)
(* resolution.  The QP solver is the external OSQP: a                      *)
(* solve returns a point satisfying the formulated constraints, or reports *)
(* infeasibility (variable values None), or raises SolverError.            *)
(***************************************************************************)
EXTENDS Integers, Sequences, FiniteSets, TLC

\* ------------------------------------------------------------------ bounds
\* Np = 40 in the script
Np == 2
\* nsim = int(len_sim / Ts) = 120 in the script
nsim == 3
\* magnitude of umin / umax, in units of 1 / Scale (1000.0 in the script)
MaxU == 10
\* magnitude of ymin / ymax, in units of 1 / Scale (100.0 in the script)
MaxY == 400
\* magnitude of Dumin / Dumax, in units of 1 / Scale (0.2 in the script)
MaxDu == 2

\* ----------------------------------------------------------- float values
\* a float value v is the integer nearest to v * Scale
Scale == 1000

\* n / Scale, rounded to the nearest integer
Rescale(n) == (2 * n + Scale) \div (2 * Scale)

\* ----------------------------------------------------------- linear algebra
RECURSIVE DotUpTo(_, _, _)
DotUpTo(a, b, n) == IF n = 0 THEN 0 ELSE DotUpTo(a, b, n - 1) + a[n] * b[n]

\* a @ b for two vectors of float values
Dot(a, b) == Rescale(DotUpTo(a, b, Len(a)))

\* M @ v, M a tuple of rows
MatVec(M, v) == [row \in 1..Len(M) |-> Dot(M[row], v)]

VecAdd(a, b) == [j \in 1..Len(a) |-> a[j] + b[j]]

VecSub(a, b) == [j \in 1..Len(a) |-> a[j] - b[j]]

\* v - s for a scalar s (numpy broadcast)
VecSubScalar(v, s) == [j \in 1..Len(v) |-> v[j] - s]

\* cvxpy quad_form(v, Q) = v' Q v
quad_form(v, Q) == Dot(v, MatVec(Q, v))

\* a <= b elementwise; a length-1 operand is broadcast over the other
Leq(a, b) ==
    \A j \in 1..(IF Len(a) > Len(b) THEN Len(a) ELSE Len(b)) :
        a[IF Len(a) = 1 THEN 1 ELSE j] <= b[IF Len(b) = 1 THEN 1 ELSE j]

\* ------------------------------------------------------------------- plant
\* denominator z^2 - den1 z + den2 of the inner-loop model, r_den = 0.9 and
\* wo_den = 0.2: den1 = 2 r_den cos(wo_den) = 1.764..., den2 = r_den^2 = 0.81
den1 == 1764
den2 == 810

\* H_noise / dcgain(H_noise): numerator 1 - den1 + den2 = 0.0458...
num0 == Scale - den1 + den2

\* control.ss(H_noise), controller canonical form
Ad == << <<den1, -den2>>, <<Scale, 0>> >>
Bd == << <<Scale>>, <<0>> >>
Cd == << <<0, num0>> >>
Dd == << <<0>> >>

nx == Len(Bd)
nu == Len(Bd[1])
ny == Len(Cd)

\* ----------------------------------------------------------- configuration
uref == 0
umin == << -MaxU - uref >>
umax == << MaxU - uref >>
ymin == << -MaxY >>
ymax == << MaxY >>
Dumin == << -MaxDu >>
Dumax == << MaxDu >>

\* weights 20, 20, 0.01 and 0.5
Qy == << <<20 * Scale>> >>
QyN == << <<20 * Scale>> >>
Qu == << <<Scale \div 100>> >>
QDu == << <<Scale \div 2>> >>

\* reference output
r == 1

\* the value 0.2
Quantum == Scale \div 5

\* initial conditions the closed loop may be configured with
\* (x0 = [0, 0] and uinit = [0] in the script): at rest, inside the state
\* bounds, one step from the upper state bound, and on the state bounds
X0Set == { <<0, 0>>, <<Quantum, Quantum>>, <<0, Quantum>>,
           <<(MaxY * Scale) \div den1, 0>>, <<MaxY, -MaxY>> }
UinitSet == { <<0>>, <<MaxU - 1>> }

\* value of a cvxpy Parameter / Variable that holds nothing
None == << >>
\* row of a float array assigned None
NaNRow == << >>

\* measured solve times (ms), 1000 * (time.time() - time_start)
TimeValues == {1, 2}

\* ------------------------------------------------------- QP formulation
\* the constants captured by Problem(Minimize(objective), constraints)
Formulated ==
    [Np |-> Np, r |-> r * Scale, Qy |-> Qy, QyN |-> QyN, Qu |-> Qu, QDu |-> QDu,
     umin |-> umin, umax |-> umax, ymin |-> ymin, ymax |-> ymax,
     Dumin |-> Dumin, Dumax |-> Dumax]

\* y = Cd @ x, column k
y(xs, k) == MatVec(Cd, xs[k])

\* variant: the first rate is taken against an implicit zero previous input
RateExprFromZero(us, um, k) == IF k > 0 THEN VecSub(us[k], us[k - 1]) ELSE us[k]

\* the expression u[:, k] - u[:, k-1], and u[:, 0] - uminus1 at k = 0
RateExpr(us, um, k) == IF k > 0 THEN VecSub(us[k], us[k - 1]) ELSE VecSub(us[k], um)

\* what iteration k of the formulation loop adds to the objective
StageObjective(p, xs, us, um, k) ==
    quad_form(RateExpr(us, um, k), p.QDu)
    + quad_form(VecSubScalar(y(xs, k), p.r), p.Qy)
    + quad_form(us[k], p.Qu)

\* the terminal cost added after the loop
TerminalObjective(p, xs) == quad_form(VecSubScalar(y(xs, p.Np), p.r), p.QyN)

\* the constraint x[:, 0] == x_init the list starts with
InitConstraint(xs, xi) == xs[0] = xi

\* variant: the rate constraint is appended only for k > 0
StageConstraintsNoFirstRate(p, xs, us, um, k) ==
    << xs[k + 1] = VecAdd(MatVec(Ad, xs[k]), MatVec(Bd, us[k])),
       Leq(p.ymin, xs[k]),
       Leq(xs[k], p.ymax),
       Leq(p.umin, us[k]),
       Leq(us[k], p.umax),
       k > 0 => Leq(p.Dumin, VecSub(us[k], us[k - 1])),
       k > 0 => Leq(VecSub(us[k], us[k - 1]), p.Dumax) >>

\* the constraints iteration k of the formulation loop appends, each
\* evaluated at the point (xs, us)
StageConstraints(p, xs, us, um, k) ==
    << xs[k + 1] = VecAdd(MatVec(Ad, xs[k]), MatVec(Bd, us[k])),
       Leq(p.ymin, xs[k]),
       Leq(xs[k], p.ymax),
       Leq(p.umin, us[k]),
       Leq(us[k], p.umax),
       Leq(p.Dumin, RateExpr(us, um, k)),
       Leq(RateExpr(us, um, k), p.Dumax) >>

AllTrue(bs) == \A j \in 1..Len(bs) : bs[j]

\* --------------------------------------------------------------- solver
\* the state trajectory the equality constraints force on an input sequence
RECURSIVE Predict(_, _, _)
Predict(xi, us, k) ==
    IF k = 0 THEN xi
    ELSE VecAdd(MatVec(Ad, Predict(xi, us, k - 1)), MatVec(Bd, us[k - 1]))

\* the point (xs, us), given up to stage k - 1, with stage k given input v
\* and the state the dynamics constraint then forces
WithInput(xs, us, k, v) ==
    [xs |-> (k + 1 :> VecAdd(MatVec(Ad, xs[k]), MatVec(Bd, v))) @@ xs,
     us |-> (k :> v) @@ us]

\* the values an input may take: every value within [umin, umax]
InputGrid(p) == { <<w>> : w \in p.umin[1]..p.umax[1] }

\* the stages from k on can be chosen so that every constraint holds
RECURSIVE Completes(_, _, _, _, _)
Completes(p, xs, us, um, k) ==
    \/ k = p.Np
    \/ \E v \in InputGrid(p) :
          LET pt == WithInput(xs, us, k, v) IN
          /\ AllTrue(StageConstraints(p, pt.xs, pt.us, um, k))
          /\ Completes(p, pt.xs, pt.us, um, k + 1)

\* the first inputs u[:, 0] of the points that satisfy the constraints of the
\* problem for parameter values xi, um
FeasibleFirstInputs(p, xi, um) ==
    { v \in InputGrid(p) :
        /\ InitConstraint(0 :> xi, xi)
        /\ LET pt == WithInput(0 :> xi, << >>, 0, v) IN
           /\ AllTrue(StageConstraints(p, pt.xs, pt.us, um, 0))
           /\ Completes(p, pt.xs, pt.us, um, 1) }

\* what prob.solve(solver=OSQP, warm_start=True) may do: return with the
\* variables holding a point that satisfies the constraints (u[:, 0].value and
\* x[:, 1].value are kept), return "infeasible" with the variables holding
\* None when there is no such point, or raise SolverError
SolverResults(p, xi, um) ==
    LET firsts == FeasibleFirstInputs(p, xi, um) IN
    { [status |-> "optimal", u_0 |-> v, x_1 |-> Predict(xi, 0 :> v, 1)] : v \in firsts }
    \cup (IF firsts = {} THEN {[status |-> "infeasible", u_0 |-> None, x_1 |-> None]}
          ELSE {})
    \cup {[status |-> "solver_error", u_0 |-> None, x_1 |-> None]}

\* ---------------------------------------------------------------- state
VARIABLES
    prob,      \* the formulated problem
    x_init,    \* x_init.value
    uminus1,   \* uminus1.value
    u_0,       \* u[:, 0].value
    x_1,       \* x[:, 1].value
    status,    \* outcome of the last solve
    x0start,   \* the configured initial state
    uinit,     \* the configured initial previous input
    x0,        \* plant state
    uMPC,      \* previous applied input
    i,         \* loop index
    xsim, ysim, usim, tsol,   \* traces
    pc,        \* position in the script
    k,         \* index of the formulation loop
    objective, \* the objective expression, evaluated at (xv, uv)
    constraints,   \* the constraint list, each entry evaluated at (xv, uv)
    xv, uv,    \* a point of the decision variables x, u
    fpc,       \* position in the formulation
    memo,      \* what the solver has returned so far, by parameter values
    run,       \* which execution of the closed loop this is
    first      \* traces of the first execution

loopvars == <<prob, x_init, uminus1, u_0, x_1, status, x0start, uinit, x0, uMPC, i,
              xsim, ysim, usim, tsol, pc>>
formvars == <<k, objective, constraints, xv, uv, fpc>>
rerunvars == <<memo, run, first>>
vars == <<loopvars, formvars, rerunvars>>

Zeros(n) == [j \in 1..n |-> 0]

Rows == 0..(nsim - 1)

NoMemo == [key \in {} |-> None]

\* the formulation has run; nothing is evaluated pointwise
FormulationDone ==
    /\ k = Np
    /\ objective = 0
    /\ constraints = << >>
    /\ xv = None
    /\ uv = None
    /\ fpc = "formulated"

FirstRun ==
    /\ memo = NoMemo
    /\ run = 1
    /\ first = None

Init ==
    /\ FormulationDone
    /\ FirstRun
    /\ prob = Formulated
    /\ x_init = None
    /\ uminus1 = None
    /\ u_0 = None
    /\ x_1 = None
    /\ status = "unsolved"
    /\ x0start \in X0Set
    /\ uinit \in UinitSet
    /\ x0 = x0start
    /\ uMPC = uinit
    /\ i = 0
    /\ xsim = [j \in Rows |-> Zeros(nx)]
    /\ ysim = [j \in Rows |-> Zeros(ny)]
    /\ usim = [j \in Rows |-> Zeros(nu)]
    /\ tsol = [j \in Rows |-> 0]
    /\ pc = "set"

\* variant: the previous-input parameter is always given uinit
SetParamsInitialInput ==
    /\ pc = "set"
    /\ ysim' = [ysim EXCEPT ![i] = MatVec(Cd, x0)]
    /\ x_init' = x0
    /\ uminus1' = uinit
    /\ pc' = "solve"
    /\ UNCHANGED <<prob, u_0, x_1, status, x0start, uinit, x0, uMPC, i, xsim, usim, tsol,
                   formvars, rerunvars>>

\* lines 100-102: record the output, set the two parameters
SetParams ==
    /\ pc = "set"
    /\ ysim' = [ysim EXCEPT ![i] = MatVec(Cd, x0)]
    /\ x_init' = x0
    /\ uminus1' = uMPC
    /\ pc' = "solve"
    /\ UNCHANGED <<prob, u_0, x_1, status, x0start, uinit, x0, uMPC, i, xsim, usim, tsol,
                   formvars, rerunvars>>

\* lines 104-106 with the solver's outcome res and the measured time t
SolveReturns(res, t) ==
    /\ status' = res.status
    /\ IF res.status = "solver_error"
       THEN /\ pc' = "fault"
            /\ UNCHANGED <<u_0, x_1, tsol>>
       ELSE /\ u_0' = res.u_0
            /\ x_1' = res.x_1
            /\ tsol' = [tsol EXCEPT ![i] = t]
            /\ pc' = "extract"
    /\ UNCHANGED <<prob, x_init, uminus1, x0start, uinit, x0, uMPC, i, xsim, ysim, usim,
                   formvars>>

Solve ==
    /\ pc = "solve"
    /\ \E res \in SolverResults(prob, x_init, uminus1), t \in TimeValues :
          SolveReturns(res, t)
    /\ UNCHANGED rerunvars

\* a float row assigned v (None becomes nan)
AsRow(v) == IF v = None THEN NaNRow ELSE v

\* variant: the extraction also writes the previous-input parameter
ExtractSetsParameter ==
    /\ pc = "extract"
    /\ uMPC' = u_0
    /\ uminus1' = u_0
    /\ usim' = [usim EXCEPT ![i] = AsRow(u_0)]
    /\ pc' = "plant"
    /\ UNCHANGED <<prob, x_init, u_0, x_1, status, x0start, uinit, x0, i,
                   xsim, ysim, tsol, formvars, rerunvars>>

\* lines 108-109: take the first input, record it
Extract ==
    /\ pc = "extract"
    /\ uMPC' = u_0
    /\ usim' = [usim EXCEPT ![i] = AsRow(u_0)]
    /\ pc' = "plant"
    /\ UNCHANGED <<prob, x_init, uminus1, u_0, x_1, status, x0start, uinit, x0, i,
                   xsim, ysim, tsol, formvars, rerunvars>>

\* variant: the input term is left out of the plant update
PlantNextNoInput(x, v) == MatVec(Ad, x)

\* Ad.dot(x) + Bd.dot(v)
PlantNext(x, v) == VecAdd(MatVec(Ad, x), MatVec(Bd, v))

\* variant: a missing input is replaced by the last one and the loop goes on
PlantStepHoldLast ==
    /\ pc = "plant"
    /\ uMPC' = IF uMPC = None THEN uminus1 ELSE uMPC
    /\ x0' = VecAdd(MatVec(Ad, x0), MatVec(Bd, uMPC'))
    /\ xsim' = [xsim EXCEPT ![i] = x0']
    /\ i' = i + 1
    /\ pc' = IF i + 1 < nsim THEN "set" ELSE "done"
    /\ UNCHANGED <<prob, x_init, uminus1, u_0, x_1, status, x0start, uinit,
                   ysim, usim, tsol, formvars, rerunvars>>

\* lines 110-111 and the loop header: Bd.dot(None) raises TypeError
PlantStep ==
    /\ pc = "plant"
    /\ IF uMPC = None
       THEN /\ pc' = "fault"
            /\ UNCHANGED <<x0, xsim, i>>
       ELSE /\ x0' = PlantNext(x0, uMPC)
            /\ xsim' = [xsim EXCEPT ![i] = x0']
            /\ i' = i + 1
            /\ pc' = IF i + 1 < nsim THEN "set" ELSE "done"
    /\ UNCHANGED <<prob, x_init, uminus1, u_0, x_1, status, x0start, uinit, uMPC,
                   ysim, usim, tsol, formvars, rerunvars>>

Next == SetParams \/ Solve \/ Extract \/ PlantStep

Spec == Init /\ [][Next]_vars

\* ------------------------------------------- two executions, one solver
\* the solve of a solver that answers equal parameter values equally
SolveSame ==
    /\ pc = "solve"
    /\ LET key == <<x_init, uminus1>>
           answers == IF key \in DOMAIN memo THEN {memo[key]}
                      ELSE SolverResults(prob, x_init, uminus1)
       IN \E res \in answers, t \in TimeValues :
             /\ SolveReturns(res, t)
             /\ memo' = (key :> res) @@ memo
    /\ UNCHANGED <<run, first>>

\* variant: the second execution keeps the previous input of the first
RerunKeepsInput ==
    /\ run = 1
    /\ pc \in {"done", "fault"}
    /\ first' = [xsim |-> xsim, ysim |-> ysim, usim |-> usim, pc |-> pc]
    /\ run' = 2
    /\ x_init' = None
    /\ uminus1' = None
    /\ u_0' = None
    /\ x_1' = None
    /\ status' = "unsolved"
    /\ x0' = x0start
    /\ uMPC' = IF uMPC = None THEN uinit ELSE uMPC
    /\ i' = 0
    /\ xsim' = [j \in Rows |-> Zeros(nx)]
    /\ ysim' = [j \in Rows |-> Zeros(ny)]
    /\ usim' = [j \in Rows |-> Zeros(nu)]
    /\ tsol' = [j \in Rows |-> 0]
    /\ pc' = "set"
    /\ UNCHANGED <<prob, x0start, uinit, memo, formvars>>

\* the script is executed again: lines 50 and 89-96 set the loop up afresh
Rerun ==
    /\ run = 1
    /\ pc \in {"done", "fault"}
    /\ first' = [xsim |-> xsim, ysim |-> ysim, usim |-> usim, pc |-> pc]
    /\ run' = 2
    /\ x_init' = None
    /\ uminus1' = None
    /\ u_0' = None
    /\ x_1' = None
    /\ status' = "unsolved"
    /\ x0' = x0start
    /\ uMPC' = uinit
    /\ i' = 0
    /\ xsim' = [j \in Rows |-> Zeros(nx)]
    /\ ysim' = [j \in Rows |-> Zeros(ny)]
    /\ usim' = [j \in Rows |-> Zeros(nu)]
    /\ tsol' = [j \in Rows |-> 0]
    /\ pc' = "set"
    /\ UNCHANGED <<prob, x0start, uinit, memo, formvars>>

NextTwice == SetParams \/ SolveSame \/ Extract \/ PlantStep \/ Rerun

SpecTwice == Init /\ [][NextTwice]_vars

\* ------------------------------------------------------------ closed loop
Failed == {"infeasible", "solver_error"}

\* sample j has been solved successfully and its input recorded
Recorded(j) == j < i \/ (j = i /\ pc = "plant" /\ status = "optimal")

\* the input applied one sample before sample j
PrevApplied(j) == IF j = 0 THEN uinit ELSE usim[j - 1]

\* C1: for every sample whose solve returned a point satisfying the QP
\* constraints, the input applied and recorded lies in [umin, umax] and its
\* difference from the input applied one sample earlier (uinit at sample 0)
\* lies in [Dumin, Dumax].
C1_InputAndRateWithinBounds ==
    /\ \A j \in Rows : Recorded(j) =>
          /\ Leq(umin, usim[j]) /\ Leq(usim[j], umax)
          /\ Leq(Dumin, VecSub(usim[j], PrevApplied(j)))
          /\ Leq(VecSub(usim[j], PrevApplied(j)), Dumax)
    /\ (pc = "plant" /\ status = "optimal") => uMPC = usim[i]

C1_Witness ==
    /\ pc = "done"
    /\ \E j \in Rows : usim[j] = umax /\ VecSub(usim[j], PrevApplied(j)) = Dumax
    /\ \E j \in Rows : VecSub(usim[j], PrevApplied(j)) = Dumin

\* C2: at every solve the parameter uminus1 holds the input applied one sample
\* earlier (uinit at sample 0), and the stored previous input uMPC is written
\* only by the extraction that follows the solve, so that at the head of the
\* next sample it holds the input just applied.
C2_PreviousInputParameter ==
    /\ [](pc \in {"solve", "extract"} => uminus1 = PrevApplied(i))
    /\ [](pc = "set" => uMPC = PrevApplied(i))
    /\ [][uMPC' # uMPC => (pc = "extract" /\ pc' = "plant")]_vars

C2_Witness ==
    /\ pc = "solve" /\ i = 2
    /\ uminus1 # uinit /\ usim[0] # usim[1]

\* C5: once a solve has reported infeasibility or failed, no further sample is
\* started, the run ends in the fault state and not as a completed run, and
\* the trace rows of the earlier samples stay as they were.
EarlierRowsKept ==
    \A j \in Rows : j < i =>
        /\ xsim'[j] = xsim[j] /\ ysim'[j] = ysim[j]
        /\ usim'[j] = usim[j] /\ tsol'[j] = tsol[j]

AbortsAfterFailure ==
    status \in Failed => (i' = i /\ pc' \in {"plant", "fault"} /\ EarlierRowsKept)

C5_FailureAborts ==
    /\ [](status \in Failed => pc \in {"extract", "plant", "fault"})
    /\ [][AbortsAfterFailure]_vars

C5_Witness == status = "infeasible" /\ pc = "fault" /\ i = 1

\* C6: no step of the closed loop changes the formulated problem, and the two
\* parameters change only where the loop sets them, before the solve.
ParametersSetBeforeSolve ==
    (x_init' # x_init \/ uminus1' # uminus1) => (pc = "set" /\ pc' = "solve")

C6_OnlyParametersChange == [][prob' = prob /\ ParametersSetBeforeSolve]_vars

C6_Witness ==
    pc = "done" /\ prob = Formulated /\ x_init # x0start /\ uminus1 # uinit

\* C8: trace row j holds the state read at the start of sample j and the output
\* of that state: ysim[j] = Cd xsim[j], and xsim[0] is the initial state.
C8_TraceRowConsistent ==
    \A j \in Rows : j < i =>
        /\ ysim[j] = MatVec(Cd, xsim[j])
        /\ xsim[0] = x0start

\* C9: from the second sample on, the state given to the QP is Ad x + Bd u of
\* the previous sample's x_init and applied input, and it equals the first
\* predicted state x[:, 1] of the previous solution.
NextInitIsPredicted ==
    /\ x_init' = VecAdd(MatVec(Ad, x_init), MatVec(Bd, usim[i - 1]))
    /\ x_init' = x_1

C9_PlantFollowsPrediction == [][(pc = "set" /\ i >= 1) => NextInitIsPredicted]_vars

C9_Witness == pc = "solve" /\ i = 2 /\ x_init # x0start /\ x_init # Zeros(nx)

\* C10: the stored previous input and the plant state change only on a
\* successful solve: after a failed solve the stored previous input is still
\* the input applied one sample earlier, never None.
C10_HoldOnFailure ==
    /\ uMPC # None
    /\ status \in Failed => (uMPC = PrevApplied(i) /\ x0 = x_init)

\* ------------------------------------- the formulation, evaluated pointwise
\* points of the decision variables the formulation is evaluated at: the
\* state trajectory an input sequence produces from xs0, with the state of one
\* stage moved off the dynamics when off > 0.  The inputs include 1.0, at which
\* the effort term weighted by Qu = 0.01 is above the resolution.
PointStates == { <<a * Quantum, b * Quantum>> : a \in {-1, 0, 3}, b \in -1..1 }
PointInputs == { <<-Quantum>>, <<0>>, <<Quantum>>, <<MaxDu>>, <<5 * Quantum>> }
PointPrevious == { <<-Quantum>>, <<0>>, <<Quantum>> }

StatesOf(xs0, us, off) ==
    [kk \in 0..Np |->
        IF off > 0 /\ kk = off
        THEN VecAdd(Predict(xs0, us, kk), <<Quantum, 0>>)
        ELSE Predict(xs0, us, kk)]

\* the state before the formulation loop (lines 57-64)
InitForm ==
    /\ FirstRun
    /\ prob = Formulated
    /\ x_init \in PointStates
    /\ uminus1 \in PointPrevious
    /\ uv \in [0..(Np - 1) -> PointInputs]
    /\ \E xs0 \in {x_init, Zeros(nx)}, off \in 0..Np : xv = StatesOf(xs0, uv, off)
    /\ objective = 0
    /\ constraints = << InitConstraint(xv, x_init) >>
    /\ k = 0
    /\ fpc = "loop"
    /\ u_0 = None
    /\ x_1 = None
    /\ status = "unsolved"
    /\ x0start = Zeros(nx)
    /\ uinit = Zeros(nu)
    /\ x0 = x0start
    /\ uMPC = uinit
    /\ i = 0
    /\ xsim = [j \in Rows |-> Zeros(nx)]
    /\ ysim = [j \in Rows |-> Zeros(ny)]
    /\ usim = [j \in Rows |-> Zeros(nu)]
    /\ tsol = [j \in Rows |-> 0]
    /\ pc = "formulate"

\* one iteration of the formulation loop (lines 65-82)
FormStep ==
    /\ fpc = "loop"
    /\ objective' = objective + StageObjective(Formulated, xv, uv, uminus1, k)
    /\ constraints' = constraints \o StageConstraints(Formulated, xv, uv, uminus1, k)
    /\ k' = k + 1
    /\ fpc' = IF k + 1 < Np THEN "loop" ELSE "terminal"
    /\ UNCHANGED <<xv, uv, loopvars, rerunvars>>

\* the terminal cost and the Problem (lines 85-86)
FormFinish ==
    /\ fpc = "terminal"
    /\ objective' = objective + TerminalObjective(Formulated, xv)
    /\ fpc' = "formulated"
    /\ UNCHANGED <<k, constraints, xv, uv, loopvars, rerunvars>>

NextForm == FormStep \/ FormFinish

SpecForm == InitForm /\ [][NextForm]_vars

\* sum of f[lo], ..., f[hi]
RECURSIVE SumOver(_, _, _)
SumOver(f, lo, hi) == IF hi < lo THEN 0 ELSE f[hi] + SumOver(f, lo, hi - 1)

\* the predicted output y_k = C x_k + D u_k (no input at k = Np)
Output(xs, us, kk) ==
    IF kk < Np THEN VecAdd(MatVec(Cd, xs[kk]), MatVec(Dd, us[kk])) ELSE MatVec(Cd, xs[kk])

TrackingSum(xs, us) ==
    SumOver([kk \in 0..(Np - 1) |->
                quad_form(VecSubScalar(Output(xs, us, kk), r * Scale), Qy)], 0, Np - 1)

EffortSum(us) == SumOver([kk \in 0..(Np - 1) |-> quad_form(us[kk], Qu)], 0, Np - 1)

RateSum(us, um) ==
    quad_form(VecSub(us[0], um), QDu)
    + SumOver([kk \in 1..(Np - 1) |-> quad_form(VecSub(us[kk], us[kk - 1]), QDu)],
              1, Np - 1)

\* C4: the objective the formulation builds equals the stage tracking and
\* effort sums over k = 0..Np-1, plus the terminal term weighted by QyN, plus
\* the rate penalty whose k = 0 term is taken against uminus1.
C4_ObjectiveIsSumOfTerms ==
    fpc = "formulated" =>
        objective = TrackingSum(xv, uv) + EffortSum(uv)
                    + quad_form(VecSubScalar(Output(xv, uv, Np), r * Scale), QyN)
                    + RateSum(uv, uminus1)

C4_Witness ==
    /\ fpc = "formulated"
    /\ uminus1 = <<Quantum>> /\ uv[0] = <<-Quantum>> /\ uv[1] = <<5 * Quantum>>
    /\ xv[0] # Zeros(nx)
    /\ TrackingSum(xv, uv) > 0
    /\ EffortSum(uv) > 0
    /\ quad_form(VecSubScalar(Output(xv, uv, Np), r * Scale), QyN) > 0
    /\ RateSum(uv, uminus1) > 0
    /\ quad_form(VecSub(uv[0], uminus1), QDu) # quad_form(uv[0], QDu)

\* the trajectory is admissible as specified: initial state, dynamics, output
\* bounds, input bounds and rate bounds
OutputAdmissible(xs, us, xi, um) ==
    /\ xs[0] = xi
    /\ \A kk \in 0..(Np - 1) :
          /\ xs[kk + 1] = VecAdd(MatVec(Ad, xs[kk]), MatVec(Bd, us[kk]))
          /\ Leq(ymin, Output(xs, us, kk)) /\ Leq(Output(xs, us, kk), ymax)
          /\ Leq(umin, us[kk]) /\ Leq(us[kk], umax)
          /\ LET du == VecSub(us[kk], IF kk = 0 THEN um ELSE us[kk - 1])
             IN Leq(Dumin, du) /\ Leq(du, Dumax)

\* C3: the formulated constraints accept a trajectory exactly when its
\* outputs Cd x_k + Dd u_k lie in [ymin, ymax] for k = 0..Np-1 and the initial
\* state, dynamics, input and rate constraints hold.
C3_OutputsAreBounded ==
    fpc = "formulated" =>
        (AllTrue(constraints) <=> OutputAdmissible(xv, uv, x_init, uminus1))

\* C7: a second execution with the same x0, uinit, reference and parameters,
\* and a solver that answers equal parameter values equally, produces the
\* same state, output and input traces at every sample and ends the same way.
C7_SameTracesOnRerun ==
    run = 2 =>
        /\ \A j \in Rows : j < i =>
              /\ xsim[j] = first.xsim[j]
              /\ ysim[j] = first.ysim[j]
              /\ usim[j] = first.usim[j]
        /\ pc \in {"done", "fault"} =>
              /\ xsim = first.xsim /\ ysim = first.ysim /\ usim = first.usim
              /\ pc = first.pc

C7_Witness ==
    /\ run = 2 /\ pc = "done"
    /\ usim[0] # usim[1] /\ xsim[1] # xsim[2]
    /\ tsol[0] # tsol[1]

====
